---------------------------- MODULE Spec2Model ----------------------------
(***************************************************************************)
(* Model of search/views.py of edx-search: the two HTTP entry points       *)
(* do_search and course_discovery, with the helpers that normalise the     *)
(* pagination parameters and extract the filter fields.                    *)
(*                                                                         *)
(* One request is followed from its arrival to its end.  The collaborators *)
(* (SearchInitializer, track.emit, perform_search, course_discovery_search,*)
(* taxoman_api) are outside the module: every call to one of them is       *)
(* appended to `trace`, and its outcome (a value, or an exception) is      *)
(* chosen nondeterministically.                                            *)
(*                                                                         *)
(* Python values: a dict is a function whose DOMAIN is its key set; the    *)
(* strings that int() parses are sequences of one-character strings; the   *)
(* other strings are opaque; None is the string "None" (no request value   *)
(* of the model is that string).                                           *)
(***************************************************************************)
EXTENDS Integers, Sequences, FiniteSets, TLC

VARIABLES
    view,              \* the entry point the request is routed to
    method,            \* the HTTP method of the request
    POST,              \* request.POST
    settings,          \* django.conf.settings, read-only during the request
    filter_fields,     \* what course_discovery_filter_fields() returns
    pc,                \* position of the handler
    search_term,       \* local of the entry point
    size,              \* local of the entry point
    from_,             \* local of the entry point
    page,              \* local of the entry point
    field_dictionary,  \* local of course_discovery
    results,           \* local of the entry point
    status_code,       \* local of the entry point
    trace,             \* the calls made to the collaborators, in order
    response,          \* the HttpResponse returned, None before
    exc                \* the exception that left the function, None if none

vars == <<view, method, POST, settings, filter_fields, pc, search_term, size,
          from_, page, field_dictionary, results, status_code, trace,
          response, exc>>

----------------------------------------------------------------------------
(* Bounds of the model *)

\* longest page_size / page_index string of a request
MaxLen == 2

\* largest "total" a collaborator result carries
MaxTotal == 1

----------------------------------------------------------------------------
(* Values *)

None == "None"

\* the characters the page_size / page_index strings are made of
Chars == {"0", "1", "-"}

Strings(n) == UNION {[1..m -> Chars] : m \in 0..n}

\* _process_pagination_values: size = 20
DefaultSize == 20

\* getattr(settings, "SEARCH_MAX_PAGE_SIZE", 100)
DefaultMaxPageSize == 100

\* settings.SEARCH_MAX_PAGE_SIZE: <<>> when the setting is absent, else <<n>>
MaxPageSizeSettings == {<<>>, <<1>>, <<10>>}

Settings == [SEARCH_MAX_PAGE_SIZE : MaxPageSizeSettings, ENABLE_TAXOMAN : BOOLEAN]

\* an exception: its class (ValueError, or any other class: "Exception")
\* and its text
Exception(type, template, arg) ==
    [type |-> type, msg |-> [template |-> template, arg |-> arg]]

----------------------------------------------------------------------------
(* int(): the conversion of a request string to an integer *)

DigitValue(c) == CASE c = "0" -> 0 [] c = "1" -> 1 [] c = "2" -> 2
                   [] c = "3" -> 3 [] c = "4" -> 4 [] c = "5" -> 5
                   [] c = "6" -> 6 [] c = "7" -> 7 [] c = "8" -> 8
                   [] c = "9" -> 9

IsDigit(c) == c \in {"0", "1", "2", "3", "4", "5", "6", "7", "8", "9"}

IsSpace(c) == c \in {" ", "\t", "\n", "\r"}

RECURSIVE LStrip(_)
LStrip(s) == IF s # <<>> /\ IsSpace(Head(s)) THEN LStrip(Tail(s)) ELSE s

RECURSIVE RStrip(_)
RStrip(s) == IF s # <<>> /\ IsSpace(s[Len(s)])
             THEN RStrip(SubSeq(s, 1, Len(s) - 1)) ELSE s

RECURSIVE DigitsValue(_)
DigitsValue(s) == IF s = <<>> THEN 0
                  ELSE 10 * DigitsValue(SubSeq(s, 1, Len(s) - 1))
                       + DigitValue(s[Len(s)])

AllDigits(s) == s # <<>> /\ \A i \in 1..Len(s) : IsDigit(s[i])

\* int(s) of Python 2 for a string: surrounding white space is ignored, one
\* sign is allowed, at least one digit is needed; anything else raises
\* ValueError.  The value is [ok |-> TRUE, value |-> n] or [ok |-> FALSE].
Int_(s) ==
    LET t == RStrip(LStrip(s))
        signed == t # <<>> /\ Head(t) \in {"+", "-"}
        digits == IF signed THEN Tail(t) ELSE t
    IN IF AllDigits(digits)
       THEN [ok |-> TRUE,
             value |-> IF signed /\ Head(t) = "-"
                       THEN 0 - DigitsValue(digits) ELSE DigitsValue(digits)]
       ELSE [ok |-> FALSE, value |-> 0]

InvalidLiteral(s) ==
    Exception("ValueError", "invalid literal for int() with base 10: {}", s)

----------------------------------------------------------------------------
(* _process_pagination_values *)

max_page_size(st) == IF st.SEARCH_MAX_PAGE_SIZE = <<>> THEN DefaultMaxPageSize
                     ELSE st.SEARCH_MAX_PAGE_SIZE[1]

Returned(s, f, p) == [raised |-> FALSE, size |-> s, from_ |-> f, page |-> p]

Raised(e) == [raised |-> TRUE, exc |-> e]

\* _process_pagination_values with page_index honoured also when page_size
\* is absent: the variant C7 is checked to tell from the code
PaginationMutIndexAlways(post, st) ==
    LET withIndex(sz) ==
            IF "page_index" \in DOMAIN post
            THEN LET p == Int_(post["page_index"])
                 IN IF ~p.ok THEN Raised(InvalidLiteral(post["page_index"]))
                    ELSE Returned(sz, p.value * sz, p.value)
            ELSE Returned(sz, 0, 0)
    IN IF "page_size" \in DOMAIN post
       THEN LET s == Int_(post["page_size"])
            IN IF ~s.ok THEN Raised(InvalidLiteral(post["page_size"]))
               ELSE IF ~(0 < s.value /\ s.value <= max_page_size(st))
               THEN Raised(Exception("ValueError",
                                     "Invalid page size of {page_size}", s.value))
               ELSE withIndex(s.value)
       ELSE withIndex(DefaultSize)

\* The value is Returned(size, from_, page), or Raised(the ValueError).
_process_pagination_values(post, st) ==
    IF "page_size" \in DOMAIN post
    THEN LET s == Int_(post["page_size"])
         IN IF ~s.ok THEN Raised(InvalidLiteral(post["page_size"]))
            ELSE IF ~(0 < s.value /\ s.value <= max_page_size(st))
            THEN Raised(Exception("ValueError",
                                  "Invalid page size of {page_size}", s.value))
            ELSE IF "page_index" \in DOMAIN post
            THEN LET p == Int_(post["page_index"])
                 IN IF ~p.ok THEN Raised(InvalidLiteral(post["page_index"]))
                    ELSE Returned(s.value, p.value * s.value, p.value)
            ELSE Returned(s.value, 0, 0)
    ELSE Returned(DefaultSize, 0, 0)


----------------------------------------------------------------------------
(* _process_field_values *)

\* _process_field_values without the allow-list test: the variant C8 is
\* checked to tell from the code
FieldValuesMutNoFilter(post, allowed) == post

_process_field_values(post, allowed) ==
    [field_key \in {k \in DOMAIN post : k \in allowed} |-> post[field_key]]

----------------------------------------------------------------------------
(* The requests and the collaborators' answers *)

TheOne(S) == CHOOSE x \in S : TRUE

Optional(S) == {{}} \cup {{x} : x \in S}

SearchStrings == {"", "robotics"}

\* the page_index strings of the requests that are followed through a view
PageIndexes == {<<"2">>, <<"-">>}

\* request fields besides the three named ones, with their values
ExtraFields == [org |-> "edX", junk |-> "zzz"]

MakePost(ss, ps, pi, extra) ==
    [k \in (IF ss = {} THEN {} ELSE {"search_string"})
           \cup (IF ps = {} THEN {} ELSE {"page_size"})
           \cup (IF pi = {} THEN {} ELSE {"page_index"})
           \cup extra
     |-> CASE k = "search_string" -> TheOne(ss)
           [] k = "page_size" -> TheOne(ps)
           [] k = "page_index" -> TheOne(pi)
           [] OTHER -> ExtraFields[k]]

Requests ==
    {MakePost(ss, ps, pi, extra) :
        ss \in Optional(SearchStrings), ps \in Optional(Strings(MaxLen)),
        pi \in Optional(PageIndexes), extra \in SUBSET DOMAIN ExtraFields}

\* the requests _process_pagination_values is applied to on its own
PaginationRequests ==
    {MakePost({}, ps, pi, {}) :
        ps \in Optional(Strings(MaxLen)), pi \in Optional(Strings(MaxLen))}

\* course_discovery_filter_fields()
FilterFieldChoices == {{"org", "modes", "language"}, {"modes", "language"}}

\* how a call to a collaborator ends
Outcomes == {"ok", "ValueError", "Exception"}

CollaboratorError(type, call) == Exception(type, "raw exception text of {}", call)

\* the facet slugs a search result may carry, and those taxoman may order
ResultSlugs == {"org", "language"}

OrderSlugs == {"org", "modes"}

FacetData(slug) == [terms |-> <<slug>>, total |-> 1]

Facets == {[slug \in S |-> FacetData(slug)] : S \in SUBSET ResultSlugs}

\* what perform_search returns
SearchResults ==
    {[took |-> 1, total |-> t, max_score |-> 1, results |-> <<>>] :
        t \in 0..MaxTotal}

\* what course_discovery_search returns: "facets" is optional
DiscoveryResults ==
    SearchResults
    \cup {[took |-> 1, total |-> t, max_score |-> 1, results |-> <<>>,
           facets |-> f] : t \in 0..MaxTotal, f \in Facets}

\* get_facet_slugs_display_order()
DisplayOrder(slug) == CASE slug = "org" -> 1 [] slug = "modes" -> 2

SlugsDisplayOrders == {[slug \in S |-> DisplayOrder(slug)] : S \in SUBSET OrderSlugs}

\* get_facet_values_display_order(slug)
FacetValuesDisplayOrder(slug) == <<slug, "second", "first">>

----------------------------------------------------------------------------
(* Calls to the collaborators, as recorded in trace: the arguments, how    *)
(* the call ended (an element of Outcomes) and, for a call that returned,  *)
(* the value returned.                                                     *)

EmitCall(name, term, sz, pg, o) ==
    [call |-> "track.emit", name |-> name,
     data |-> [search_term |-> term, page_size |-> sz, page_number |-> pg],
     outcome |-> o]

EmitDisplayedCall(name, term, sz, pg, count, o) ==
    [call |-> "track.emit", name |-> name,
     data |-> [search_term |-> term, page_size |-> sz, page_number |-> pg,
               results_count |-> count],
     outcome |-> o]

PerformSearchCall(term, sz, frm, o, ret) ==
    [call |-> "search", name |-> "perform_search",
     search_term |-> term, size |-> sz, from_ |-> frm,
     outcome |-> o, returned |-> ret]

DiscoverySearchCall(term, sz, frm, fields, o, ret) ==
    [call |-> "search", name |-> "course_discovery_search",
     search_term |-> term, size |-> sz, from_ |-> frm,
     field_dictionary |-> fields, outcome |-> o, returned |-> ret]

OtherCall(name, arg, o, ret) ==
    [call |-> "other", name |-> name, arg |-> arg, outcome |-> o,
     returned |-> ret]

----------------------------------------------------------------------------
(* The except clauses of the two views *)

NothingToSearch == [error |-> [template |-> "Nothing to search", arg |-> None]]

GenericError(term) ==
    [error |-> [template |-> "An error occurred when searching for \"{search_string}\"",
                arg |-> term]]

\* results after the except clause that catches e
Except(e, term) ==
    IF e.type = "ValueError" THEN [error |-> e.msg] ELSE GenericError(term)

\* where a view continues after its try statement
AfterTry == IF view = "do_search" THEN "respond" ELSE "taxoman"

----------------------------------------------------------------------------
(* The state at the arrival of a request *)

Init ==
    /\ view \in {"do_search", "course_discovery"}
    /\ method \in {"POST", "GET"}
    /\ POST \in (IF method = "POST" THEN Requests ELSE {<<>>})
    /\ settings \in Settings
    /\ filter_fields \in FilterFieldChoices
    /\ pc = "require_POST"
    /\ search_term = None
    /\ size = None
    /\ from_ = None
    /\ page = None
    /\ field_dictionary = None
    /\ results = None
    /\ status_code = None
    /\ trace = <<>>
    /\ response = None
    /\ exc = None

request == <<view, method, POST, settings, filter_fields>>


----------------------------------------------------------------------------
(* Steps shared by the two views *)

\* @require_POST: any other method is answered 405 and the view is not run
RequirePOST ==
    /\ pc = "require_POST"
    /\ IF method = "POST"
       THEN /\ pc' = IF view = "do_search" THEN "set_search_enviroment"
                     ELSE "validate"
            /\ UNCHANGED response
       ELSE /\ pc' = "done"
            /\ response' = [body |-> None, status |-> 405]
    /\ UNCHANGED <<request, search_term, size, from_, page, field_dictionary,
                   results, status_code, trace, exc>>

\* a call made inside the try statement raised e: the except clauses
Caught(e) ==
    /\ results' = Except(e, search_term)
    /\ pc' = AfterTry

\* return HttpResponse(json.dumps(results), status=status_code)
Respond ==
    /\ pc = "respond"
    /\ response' = [body |-> results, status |-> status_code]
    /\ pc' = "done"
    /\ UNCHANGED <<request, search_term, size, from_, page, field_dictionary,
                   results, status_code, trace, exc>>

----------------------------------------------------------------------------
(* do_search *)

\* SearchInitializer.set_search_enviroment(...), before the try statement
SetSearchEnviroment ==
    /\ pc = "set_search_enviroment"
    /\ \E o \in {"ok", "Exception"} :
        /\ trace' = Append(trace, OtherCall("set_search_enviroment", None, o, None))
        /\ IF o = "ok"
           THEN pc' = "validate" /\ UNCHANGED exc
           ELSE /\ pc' = "raised"
                /\ exc' = CollaboratorError(o, "set_search_enviroment")
    /\ UNCHANGED <<request, search_term, size, from_, page, field_dictionary,
                   results, status_code, response>>

\* results, status_code, search_term; the search term is required; pagination
DoSearchValidate ==
    /\ pc = "validate" /\ view = "do_search"
    /\ LET term == IF "search_string" \in DOMAIN POST THEN POST["search_string"]
                   ELSE None
           r == _process_pagination_values(POST, settings)
       IN /\ search_term' = term
          /\ status_code' = 500
          /\ IF term = None \/ term = ""
             THEN /\ results' = Except(Exception("ValueError",
                                    "No search term provided for search", None), term)
                  /\ pc' = AfterTry
                  /\ UNCHANGED <<size, from_, page>>
             ELSE IF r.raised
             THEN /\ results' = Except(r.exc, term)
                  /\ pc' = AfterTry
                  /\ UNCHANGED <<size, from_, page>>
             ELSE /\ results' = NothingToSearch
                  /\ size' = r.size /\ from_' = r.from_ /\ page' = r.page
                  /\ pc' = "emit_initiated"
    /\ UNCHANGED <<request, field_dictionary, trace, response, exc>>

\* track.emit('edx.course.search.initiated', ...)
DoSearchEmitInitiated ==
    /\ pc = "emit_initiated" /\ view = "do_search"
    /\ \E o \in Outcomes :
        /\ trace' = Append(trace, EmitCall("edx.course.search.initiated",
                                           search_term, size, page, o))
        /\ IF o = "ok" THEN pc' = "search" /\ UNCHANGED results
           ELSE Caught(CollaboratorError(o, "track.emit"))
    /\ UNCHANGED <<request, search_term, size, from_, page, field_dictionary,
                   status_code, response, exc>>

\* results = perform_search(...); status_code = 200
PerformSearch ==
    /\ pc = "search" /\ view = "do_search"
    /\ \E o \in Outcomes :
        IF o = "ok"
        THEN \E r \in SearchResults :
                /\ trace' = Append(trace, PerformSearchCall(search_term, size, from_, o, r))
                /\ results' = r
                /\ status_code' = 200
                /\ pc' = "emit_displayed"
        ELSE /\ trace' = Append(trace, PerformSearchCall(search_term, size, from_, o, None))
             /\ Caught(CollaboratorError(o, "perform_search"))
             /\ UNCHANGED status_code
    /\ UNCHANGED <<request, search_term, size, from_, page, field_dictionary,
                   response, exc>>

\* DoSearchEmitDisplayed with results_count = len(results["results"]): the
\* variant C4 is checked to tell from the code
DoSearchEmitDisplayedMutCountsPage ==
    /\ pc = "emit_displayed" /\ view = "do_search"
    /\ \E o \in Outcomes :
        /\ trace' = Append(trace, EmitDisplayedCall(
                        "edx.course.search.results_displayed",
                        search_term, size, page, Len(results["results"]), o))
        /\ IF o = "ok" THEN pc' = "respond" /\ UNCHANGED results
           ELSE Caught(CollaboratorError(o, "track.emit"))
    /\ UNCHANGED <<request, search_term, size, from_, page, field_dictionary,
                   status_code, response, exc>>

\* track.emit('edx.course.search.results_displayed', ...)
DoSearchEmitDisplayed ==
    /\ pc = "emit_displayed" /\ view = "do_search"
    /\ \E o \in Outcomes :
        /\ trace' = Append(trace, EmitDisplayedCall(
                        "edx.course.search.results_displayed",
                        search_term, size, page, results["total"], o))
        /\ IF o = "ok" THEN pc' = "respond" /\ UNCHANGED results
           ELSE Caught(CollaboratorError(o, "track.emit"))
    /\ UNCHANGED <<request, search_term, size, from_, page, field_dictionary,
                   status_code, response, exc>>


----------------------------------------------------------------------------
(* course_discovery *)

\* results, status_code, search_term; pagination; the filter fields
\* (course_discovery_filter_fields() is taken to return)
CourseDiscoveryValidate ==
    /\ pc = "validate" /\ view = "course_discovery"
    /\ LET term == IF "search_string" \in DOMAIN POST THEN POST["search_string"]
                   ELSE None
           r == _process_pagination_values(POST, settings)
       IN /\ search_term' = term
          /\ status_code' = 500
          /\ IF r.raised
             THEN /\ results' = Except(r.exc, term)
                  /\ pc' = AfterTry
                  /\ UNCHANGED <<size, from_, page, field_dictionary>>
             ELSE /\ results' = NothingToSearch
                  /\ size' = r.size /\ from_' = r.from_ /\ page' = r.page
                  /\ field_dictionary' = _process_field_values(POST, filter_fields)
                  /\ pc' = "emit_initiated"
    /\ UNCHANGED <<request, trace, response, exc>>

\* track.emit('edx.course_discovery.search.initiated', ...)
CourseDiscoveryEmitInitiated ==
    /\ pc = "emit_initiated" /\ view = "course_discovery"
    /\ \E o \in Outcomes :
        /\ trace' = Append(trace, EmitCall("edx.course_discovery.search.initiated",
                                           search_term, size, page, o))
        /\ IF o = "ok" THEN pc' = "search" /\ UNCHANGED results
           ELSE Caught(CollaboratorError(o, "track.emit"))
    /\ UNCHANGED <<request, search_term, size, from_, page, field_dictionary,
                   status_code, response, exc>>

\* results = course_discovery_search(...)
CourseDiscoverySearch ==
    /\ pc = "search" /\ view = "course_discovery"
    /\ \E o \in Outcomes :
        IF o = "ok"
        THEN \E r \in DiscoveryResults :
                /\ trace' = Append(trace, DiscoverySearchCall(search_term, size, from_,
                                                           field_dictionary, o, r))
                /\ results' = r
                /\ pc' = "emit_displayed"
        ELSE /\ trace' = Append(trace, DiscoverySearchCall(search_term, size, from_,
                                                        field_dictionary, o, None))
             /\ Caught(CollaboratorError(o, "course_discovery_search"))
    /\ UNCHANGED <<request, search_term, size, from_, page, field_dictionary,
                   status_code, response, exc>>

\* track.emit('edx.course_discovery.search.results_displayed', ...);
\* status_code = 200
CourseDiscoveryEmitDisplayed ==
    /\ pc = "emit_displayed" /\ view = "course_discovery"
    /\ \E o \in Outcomes :
        /\ trace' = Append(trace, EmitDisplayedCall(
                        "edx.course_discovery.search.results_displayed",
                        search_term, size, page, results["total"], o))
        /\ IF o = "ok"
           THEN pc' = AfterTry /\ status_code' = 200 /\ UNCHANGED results
           ELSE Caught(CollaboratorError(o, "track.emit")) /\ UNCHANGED status_code
    /\ UNCHANGED <<request, search_term, size, from_, page, field_dictionary,
                   response, exc>>

\* a set as a sequence, in the order a dict happens to iterate
RECURSIVE SeqOf(_)
SeqOf(S) == IF S = {} THEN <<>>
            ELSE LET x == CHOOSE y \in S : TRUE IN <<x>> \o SeqOf(S \ {x})

\* results['facets'][slug] with display_order and facet_values set
Annotated(facet, display_order, fv_display_orders) ==
    [k \in DOMAIN facet \cup {"display_order", "facet_values"} |->
        CASE k = "display_order" -> display_order
          [] k = "facet_values" -> fv_display_orders
          [] OTHER -> facet[k]]

\* the loop over slugs_display_order, for a result that has 'facets'
Reordered(res, slugs_display_order) ==
    [res EXCEPT !["facets"] =
        [slug \in DOMAIN @ |->
            IF slug \in DOMAIN slugs_display_order
            THEN Annotated(@[slug], slugs_display_order[slug],
                           FacetValuesDisplayOrder(slug))
            ELSE @[slug]]]

\* if settings.FEATURES.get('ENABLE_TAXOMAN', False): ..., after the try
\* statement: nothing there is caught
FacetDisplayOrder ==
    /\ pc = "taxoman" /\ view = "course_discovery"
    /\ IF ~settings.ENABLE_TAXOMAN
       THEN pc' = "respond" /\ UNCHANGED <<results, trace, exc>>
       ELSE \E o \in {"ok", "Exception"} :
          IF o # "ok"
          THEN /\ trace' = Append(trace, OtherCall("get_facet_slugs_display_order",
                                                   None, o, None))
               /\ pc' = "raised"
               /\ exc' = CollaboratorError(o, "get_facet_slugs_display_order")
               /\ UNCHANGED results
          ELSE \E slugs_display_order \in SlugsDisplayOrders :
            LET got == Append(trace, OtherCall("get_facet_slugs_display_order",
                                               None, o, slugs_display_order))
                both == IF "facets" \in DOMAIN results
                        THEN DOMAIN slugs_display_order \cap DOMAIN results["facets"]
                        ELSE {}
                calls(fo) == [i \in 1..Cardinality(both) |->
                                OtherCall("get_facet_values_display_order",
                                          SeqOf(both)[i], fo,
                                          IF fo = "ok"
                                          THEN FacetValuesDisplayOrder(SeqOf(both)[i])
                                          ELSE None)]
            IN IF DOMAIN slugs_display_order = {}
               THEN pc' = "respond" /\ trace' = got /\ UNCHANGED <<results, exc>>
               ELSE IF "facets" \notin DOMAIN results
               THEN /\ pc' = "raised"
                    /\ exc' = Exception("KeyError", "{}", "facets")
                    /\ trace' = got
                    /\ UNCHANGED results
               ELSE IF both = {}
               THEN pc' = "respond" /\ trace' = got /\ UNCHANGED <<results, exc>>
               ELSE \E fo \in {"ok", "Exception"} :
                    IF fo = "ok"
                    THEN /\ results' = Reordered(results, slugs_display_order)
                         /\ trace' = got \o calls(fo)
                         /\ pc' = "respond"
                         /\ UNCHANGED exc
                    ELSE /\ pc' = "raised"
                         /\ exc' = CollaboratorError(fo, "get_facet_values_display_order")
                         /\ trace' = got \o SubSeq(calls(fo), 1, 1)
                         /\ UNCHANGED results
    /\ UNCHANGED <<request, search_term, size, from_, page, field_dictionary,
                   status_code, response>>

----------------------------------------------------------------------------
(* The specification of a request to one of the views *)

Next ==
    \/ RequirePOST
    \/ SetSearchEnviroment
    \/ DoSearchValidate
    \/ DoSearchEmitInitiated
    \/ PerformSearch
    \/ DoSearchEmitDisplayed
    \/ CourseDiscoveryValidate
    \/ CourseDiscoveryEmitInitiated
    \/ CourseDiscoverySearch
    \/ CourseDiscoveryEmitDisplayed
    \/ FacetDisplayOrder
    \/ Respond

Spec == Init /\ [][Next]_vars

----------------------------------------------------------------------------
(* The specification of _process_pagination_values applied on its own *)

InitPagination ==
    /\ view = "_process_pagination_values"
    /\ method = "POST"
    /\ POST \in PaginationRequests
    /\ settings \in [SEARCH_MAX_PAGE_SIZE : MaxPageSizeSettings,
                     ENABLE_TAXOMAN : {FALSE}]
    /\ filter_fields = {}
    /\ pc = "call"
    /\ search_term = None
    /\ size = None
    /\ from_ = None
    /\ page = None
    /\ field_dictionary = None
    /\ results = None
    /\ status_code = None
    /\ trace = <<>>
    /\ response = None
    /\ exc = None

ProcessPaginationValues ==
    /\ pc = "call"
    /\ LET r == _process_pagination_values(POST, settings)
       IN IF r.raised
          THEN pc' = "raised" /\ exc' = r.exc /\ UNCHANGED <<size, from_, page>>
          ELSE /\ pc' = "returned"
               /\ size' = r.size /\ from_' = r.from_ /\ page' = r.page
               /\ UNCHANGED exc
    /\ UNCHANGED <<request, search_term, field_dictionary, results, status_code,
                   trace, response>>

NextPagination == ProcessPaginationValues

SpecPagination == InitPagination /\ [][NextPagination]_vars


----------------------------------------------------------------------------
(* What the properties below are stated with *)

\* the view has ended: it returned a response, or an exception left it
Ended == pc \in {"done", "raised"}

\* the view returned a response to a POST request
Answered == pc = "done" /\ method = "POST"

IsSearchResult(body) == {"took", "total", "max_score", "results"} \subseteq DOMAIN body

IsErrorResponse(body) == DOMAIN body = {"error"}

InitiatedEvents == {"edx.course.search.initiated",
                    "edx.course_discovery.search.initiated"}

DisplayedEvents == {"edx.course.search.results_displayed",
                    "edx.course_discovery.search.results_displayed"}

EventsOf(v) == IF v = "do_search"
               THEN <<"edx.course.search.initiated",
                      "edx.course.search.results_displayed">>
               ELSE <<"edx.course_discovery.search.initiated",
                      "edx.course_discovery.search.results_displayed">>

Emits == SelectSeq(trace, LAMBDA c : c.call = "track.emit")

SearchCalls == SelectSeq(trace, LAMBDA c : c.call = "search")

\* the texts of the ValueErrors raised on invalid input
ValidationMessages == {"No search term provided for search",
                       "Invalid page size of {page_size}",
                       "invalid literal for int() with base 10: {}"}

\* every call made to a collaborator returned, but possibly the i-th
AllReturnedBut(i) ==
    \A j \in DOMAIN trace : j # i => trace[j].outcome = "ok"

SlugsOf(body) == IF "facets" \in DOMAIN body THEN DOMAIN body["facets"] ELSE {}

\* the decimal numeral of an integer
DigitChar(d) == CASE d = 0 -> "0" [] d = 1 -> "1" [] d = 2 -> "2" [] d = 3 -> "3"
                  [] d = 4 -> "4" [] d = 5 -> "5" [] d = 6 -> "6" [] d = 7 -> "7"
                  [] d = 8 -> "8" [] d = 9 -> "9"

RECURSIVE NatNumeral(_)
NatNumeral(n) == IF n < 10 THEN <<DigitChar(n)>>
                 ELSE NatNumeral(n \div 10) \o <<DigitChar(n % 10)>>

Numeral(n) == IF n < 0 THEN <<"-">> \o NatNumeral(0 - n) ELSE NatNumeral(n)

RECURSIVE Pow10(_)
Pow10(k) == IF k = 0 THEN 1 ELSE 10 * Pow10(k - 1)

\* the integers whose numeral has at most MaxLen characters
NumeralRange == (1 - Pow10(MaxLen - 1)) .. (Pow10(MaxLen) - 1)

----------------------------------------------------------------------------
(* C1 *)

\* C1: for a POST request to either view, whichever collaborator call fails
\* and whichever flags are set, no exception leaves the view, and the
\* response it returns has a body that is either a SearchResult or an
\* ErrorResponse (one of the two, not both).
C1_OneBodyNothingEscapes ==
    method = "POST" =>
        /\ pc # "raised"
        /\ pc = "done" =>
              IsSearchResult(response.body) # IsErrorResponse(response.body)

----------------------------------------------------------------------------
(* C2 *)

\* C2: in both views every response whose body is an ErrorResponse has status
\* 500, and status 200 comes only with the SearchResult of a search call that
\* returned; also when the "results displayed" emission fails.
C2_ErrorIs500 ==
    Answered =>
        /\ IsErrorResponse(response.body) => response.status = 500
        /\ response.status = 200 =>
              /\ IsSearchResult(response.body)
              /\ \E i \in DOMAIN trace :
                    trace[i].call = "search" /\ trace[i].outcome = "ok"

----------------------------------------------------------------------------
(* C3 *)

\* C3: whenever a view calls perform_search or course_discovery_search, the
\* size it passes lies in [1, max_page_size], whether page_size is in the
\* request or not and whatever SEARCH_MAX_PAGE_SIZE is set to.
C3_SizeWithinBounds ==
    \A i \in DOMAIN trace :
        trace[i].call = "search" =>
            1 <= trace[i].size /\ trace[i].size <= max_page_size(settings)

----------------------------------------------------------------------------
(* C4 *)

\* C4 (an event is emitted when track.emit is called with it): in both
\* views, once the search call has returned and the view is past
\* its "results displayed" emission, the request has emitted exactly two
\* events: the view's "initiated" event, right before the search call, and
\* the view's "results displayed" event, right after it, whose results_count
\* is the total of the result returned.
C4_EventsAroundSearch ==
    \A i \in DOMAIN trace :
        (/\ trace[i].call = "search"
         /\ trace[i].outcome = "ok"
         /\ pc \in {"taxoman", "respond", "done", "raised"})
        => /\ Len(Emits) = 2
           /\ Len(SearchCalls) = 1
           /\ i > 1 /\ i < Len(trace)
           /\ trace[i - 1] = Emits[1]
           /\ trace[i + 1] = Emits[2]
           /\ Emits[1].name = EventsOf(view)[1]
           /\ Emits[2].name = EventsOf(view)[2]
           /\ Emits[2].data.results_count = trace[i].returned.total

\* C4 witness: do_search answered 200 after a search that found MaxTotal
\* documents, with both events emitted
C4_Witness ==
    /\ view = "do_search" /\ pc = "done"
    /\ response.status = 200
    /\ Len(Emits) = 2
    /\ Emits[2].data.results_count = MaxTotal
    /\ MaxTotal > 0

----------------------------------------------------------------------------
(* C5 *)

\* C5: in both views, when the search call raises (any exception; the other
\* calls return), the view answers the ErrorResponse with the generic message
\* (the search term in it, not the exception's text) and status 500, and
\* emits no "results displayed" event.  Stated of the requests that are
\* answered.
C5_SearchFailureIsGeneric500 ==
    \A i \in DOMAIN trace :
        (/\ trace[i].call = "search" /\ trace[i].outcome # "ok"
         /\ AllReturnedBut(i) /\ Answered)
        => /\ response.body = GenericError(search_term)
           /\ response.status = 500
           /\ \A j \in DOMAIN trace : trace[j].name \notin DisplayedEvents

----------------------------------------------------------------------------
(* C6 *)

NoSearchTerm == "search_string" \notin DOMAIN POST \/ POST["search_string"] = ""

InvalidPageSize ==
    /\ "page_size" \in DOMAIN POST
    /\ LET v == Int_(POST["page_size"])
       IN ~v.ok \/ v.value <= 0 \/ v.value > max_page_size(settings)

\* C6: a POST request with invalid input (do_search without a search term;
\* either view with a page_size that is not a number, is zero, negative or
\* above max_page_size) ends, when no collaborator fails, with an
\* ErrorResponse that carries the validation message, without any search
\* call and without any event.
C6_InvalidInputRejected ==
    (/\ method = "POST" /\ Ended /\ AllReturnedBut(0)
     /\ ((view = "do_search" /\ NoSearchTerm) \/ InvalidPageSize))
    => /\ pc = "done"
       /\ IsErrorResponse(response.body)
       /\ response.body.error.template \in ValidationMessages
       /\ \A i \in DOMAIN trace : trace[i].call \notin {"search", "track.emit"}

----------------------------------------------------------------------------
(* C7, under SpecPagination *)

----------------------------------------------------------------------------
(* C8 *)

\* C8: the field_dictionary that course_discovery computes and passes to
\* course_discovery_search has as keys exactly the request's keys that are in
\* the allow-list, each with the request's value: no other key, no allowed
\* key dropped, and it is empty when the request has no allowed key.
C8_FieldDictionary ==
    \A i \in DOMAIN trace :
        trace[i].name = "course_discovery_search" =>
            LET fd == trace[i].field_dictionary
            IN /\ DOMAIN fd \subseteq filter_fields
               /\ DOMAIN fd \subseteq DOMAIN POST
               /\ \A k \in DOMAIN POST : k \in filter_fields => k \in DOMAIN fd
               /\ \A k \in DOMAIN fd : fd[k] = POST[k]
               /\ (DOMAIN POST \cap filter_fields = {}) => fd = <<>>
               /\ fd = field_dictionary

\* C8 witness: a request with an allowed key (org) and keys that are not
\* (junk, search_string); course_discovery_search got the allowed one only
C8_Witness ==
    /\ pc = "done"
    /\ {"org", "junk", "search_string"} \subseteq DOMAIN POST
    /\ "org" \in filter_fields
    /\ \E i \in DOMAIN trace :
          /\ trace[i].name = "course_discovery_search"
          /\ DOMAIN trace[i].field_dictionary = {"org"}
          /\ trace[i].field_dictionary["org"] = "edX"

----------------------------------------------------------------------------
(* C9 *)

\* C9: course_discovery with ENABLE_TAXOMAN, after a search call that
\* returned (and with every other call returning too): the response carries
\* the facet slugs of the result returned, no more and no fewer, also when
\* the result has no facets; a slug that is also in the display order has
\* display_order set and facet_values replaced, the others are as returned.
C9_FacetsOnlyAnnotated ==
    \A i \in DOMAIN trace :
        (/\ view = "course_discovery" /\ settings.ENABLE_TAXOMAN /\ Ended
         /\ trace[i].call = "search" /\ AllReturnedBut(0))
        => /\ pc = "done"
           /\ IsSearchResult(response.body)
           /\ ("facets" \in DOMAIN response.body)
                 = ("facets" \in DOMAIN trace[i].returned)
           /\ SlugsOf(response.body) = SlugsOf(trace[i].returned)
           /\ \A j \in DOMAIN trace :
                trace[j].name = "get_facet_slugs_display_order" =>
                    \A slug \in SlugsOf(response.body) :
                        LET got == response.body["facets"][slug]
                            was == trace[i].returned["facets"][slug]
                        IN IF slug \in DOMAIN trace[j].returned
                           THEN /\ got["display_order"] = trace[j].returned[slug]
                                /\ got["facet_values"] = FacetValuesDisplayOrder(slug)
                                /\ \A k \in DOMAIN was : got[k] = was[k]
                           ELSE got = was

----------------------------------------------------------------------------
(* C10 *)

\* C10: a failure of the "initiated" emission (the other calls return) does
\* not abort the request: the search call is still made, with the normalised
\* parameters, and when it returns the view answers its result with status
\* 200.  Stated of the requests that are answered.
C10_InitiatedFireAndForget ==
    \A i \in DOMAIN trace :
        (/\ trace[i].name \in InitiatedEvents /\ trace[i].outcome # "ok"
         /\ AllReturnedBut(i) /\ Answered)
        => \E j \in DOMAIN trace :
              /\ j > i
              /\ trace[j].call = "search"
              /\ trace[j].size = size /\ trace[j].from_ = from_
              /\ trace[j].outcome = "ok" =>
                    /\ response.status = 200
                    /\ IsSearchResult(response.body)

=============================================================================
